---- MODULE Spec2Model ----
(***************************************************************************)
(* A model of the gophers client library (src/lib.rs):                     *)
(*   Gopher::new       - the endpoint resolver,                            *)
(*   Gopher::connect   - TCP dial and optional TLS handshake,              *)
(*   GopherConnection::fetch - write_all of "<path>\r\n", read_to_end.     *)
(* Strings are sequences of one-character strings; bytes on the wire are   *)
(* the character codes of ASCII text (a Rust str is its UTF-8 bytes).      *)
(***************************************************************************)
EXTENDS Integers, Sequences, FiniteSets, TLC

VARIABLES
    endpoint,     \* the &str handed to Gopher::new
    newResult,    \* what Gopher::new returned: NotCalled, Ok(cfg) or Err(kind)
    gopher,       \* the Gopher struct {host, port, tls} connect is called on
    dials,        \* number of sockets TcpStream::connect has opened so far
    handshaken,   \* sockets on which a TLS handshake has succeeded
    conn,         \* the GopherConnection the caller holds (or NoConn)
    connResult,   \* what the last Gopher::connect returned
    pc,           \* position of the caller inside fetch
    path,         \* fetch's argument
    req,          \* fetch's local: format!("{}\r\n", path)
    written,      \* how far write_all has advanced through req
    wire,         \* bytes the transport has accepted on the current socket
    buf,          \* fetch's local Vec<u8> filled by read_to_end
    eofSeen,      \* a read on this connection has returned Ok(0)
    ioLog,        \* every write/read call fetch issued and what it returned
    fetchResult,  \* what fetch returned
    peerKind,     \* how the peer behaves: it serves a body, or it stalls
    body,         \* the byte sequence S a serving peer writes
    peerSent,     \* how many bytes of S the peer has written
    inflight,     \* bytes written by the peer and not yet read
    peerClosed    \* the peer has closed its write side

vars == <<endpoint, newResult, gopher, dials, handshaken, conn, connResult,
          pc, path, req, written, wire, buf, eofSeen, ioLog, fetchResult,
          peerKind, body, peerSent, inflight, peerClosed>>

resolverVars == <<endpoint, newResult>>
connectVars == <<gopher, dials, handshaken, conn, connResult>>
fetchVars == <<pc, path, req, written, wire, buf, eofSeen, ioLog, fetchResult>>
peerVars == <<peerKind, body, peerSent, inflight, peerClosed>>

(***************************************************************************)
(* Generic helpers.                                                        *)
(***************************************************************************)
SeqsUpTo(A, n) == UNION {[1..k -> A] : k \in 0..n}

DropFirst(s, n) == SubSeq(s, n + 1, Len(s))

StartsWith(s, p) == Len(s) >= Len(p) /\ SubSeq(s, 1, Len(p)) = p

IsPrefix(p, s) == StartsWith(s, p)

(***************************************************************************)
(* Endpoint strings.                                                       *)
(***************************************************************************)
GOPHER == <<"g", "o", "p", "h", "e", "r">>
GOPHERS == <<"g", "o", "p", "h", "e", "r", "s">>
HTTP == <<"h", "t", "t", "p">>
SLASHES == <<"/", "/">>
HOSTNAME == <<"a", ".", "b">>

Letters == {"g", "o", "p", "h", "e", "r", "s", "t", "a", "b", "G"}
Digits == {"0", "1", "2", "3", "4", "5", "6", "7", "8", "9"}

SchemeParts == {<<>>, GOPHER, GOPHERS, HTTP, <<"G">> \o DropFirst(GOPHER, 1),
                <<"7">> \o GOPHER}
ColonParts == {<<>>, <<":">>}
SlashParts == {<<>>, <<"/">>, SLASHES}
HostParts == {<<>>, HOSTNAME}
PortParts == {<<>>, <<":">>, <<":", "0">>, <<":", "7", "0">>, <<":", "8", "0">>,
              <<":", "1", "0", "5">>, <<":", "6", "5", "5", "3", "5">>,
              <<":", "6", "5", "5", "3", "6">>, <<":", "7", "a">>}
PathParts == {<<>>, <<"/">>}

Endpoints ==
    {s \o c \o sl \o h \o p \o t :
        s \in SchemeParts, c \in ColonParts, sl \in SlashParts,
        h \in HostParts, p \in PortParts, t \in PathParts}

(***************************************************************************)
(* Url::parse, for the characters the endpoints above are made of.         *)
(***************************************************************************)
U16Max == 65535
NoPort == -1

Chars == Letters \cup Digits \cup {".", ":", "/"}
SchemeChars == Letters \cup Digits \cup {"."}
HostStops == {":", "/"}
PortStops == {"/"}

ToLower(c) == IF c = "G" THEN "g" ELSE c

LowerAll(s) == [i \in 1..Len(s) |-> ToLower(s[i])]

DigitVal(c) ==
    CASE c = "0" -> 0 [] c = "1" -> 1 [] c = "2" -> 2 [] c = "3" -> 3
      [] c = "4" -> 4 [] c = "5" -> 5 [] c = "6" -> 6 [] c = "7" -> 7
      [] c = "8" -> 8 [] c = "9" -> 9

\* Length of the longest prefix of s made of characters of set A.
SpanLen(s, A) ==
    LET stops == {j \in 0..Len(s) : j = Len(s) \/ s[j + 1] \notin A}
    IN  CHOOSE j \in stops : \A k \in stops : j <= k

IsSpecial(scheme) == scheme = HTTP

default_port(scheme) == IF scheme = HTTP THEN 80 ELSE NoPort

ParseErr(kind) == [ok |-> FALSE, err |-> kind]

ParseOk(scheme, hostStr, port) ==
    [ok |-> TRUE,
     url |-> [scheme |-> scheme,
              host |-> [some |-> hostStr # <<>>, str |-> hostStr],
              port |-> port]]

\* Parser::parse_port: decimal digits, overflow past u16 is InvalidPort, a
\* character that neither is a digit nor starts the path is InvalidPort, no
\* digits or the scheme's default port is None.
RECURSIVE parse_port_digits(_, _, _)
parse_port_digits(s, acc, any) ==
    IF s = <<>> \/ s[1] \in PortStops
    THEN [ok |-> TRUE, port |-> IF any THEN acc ELSE NoPort]
    ELSE IF s[1] \in Digits
         THEN IF acc * 10 + DigitVal(s[1]) > U16Max
              THEN [ok |-> FALSE, port |-> NoPort]
              ELSE parse_port_digits(Tail(s), acc * 10 + DigitVal(s[1]), TRUE)
         ELSE [ok |-> FALSE, port |-> NoPort]

parse_port(s, scheme) ==
    LET r == parse_port_digits(s, 0, FALSE)
    IN  IF r.ok /\ r.port = default_port(scheme)
        THEN [ok |-> TRUE, port |-> NoPort]
        ELSE r

\* Parser::after_double_slash / parse_host_and_port / parse_host.  The host
\* runs up to the first ':' or '/'; an empty host is an error for a special
\* scheme or before a port, and is "no host" otherwise.
after_double_slash(input, scheme) ==
    LET n == SpanLen(input, Chars \ HostStops)
        rawHost == SubSeq(input, 1, n)
        hostStr == IF IsSpecial(scheme) THEN LowerAll(rawHost) ELSE rawHost
        rest == DropFirst(input, n)
    IN  IF hostStr = <<>> /\ (IsSpecial(scheme) \/ StartsWith(rest, <<":">>))
        THEN ParseErr("EmptyHost")
        ELSE IF StartsWith(rest, <<":">>)
             THEN LET p == parse_port(Tail(rest), scheme)
                  IN  IF p.ok THEN ParseOk(scheme, hostStr, p.port)
                      ELSE ParseErr("InvalidPort")
             ELSE ParseOk(scheme, hostStr, NoPort)

\* Parser::parse_url without a base URL.
UrlParse(input) ==
    LET n == SpanLen(input, SchemeChars)
        scheme == LowerAll(SubSeq(input, 1, n))
        rest == DropFirst(input, n + 1)
    IN  IF input = <<>> \/ input[1] \notin Letters
           \/ n = Len(input) \/ input[n + 1] # ":"
        THEN ParseErr("RelativeUrlWithoutBase")
        ELSE IF IsSpecial(scheme)
             THEN after_double_slash(DropFirst(rest, SpanLen(rest, {"/"})), scheme)
             ELSE IF StartsWith(rest, SLASHES)
                  THEN after_double_slash(DropFirst(rest, 2), scheme)
                  ELSE ParseOk(scheme, <<>>, NoPort)

(***************************************************************************)
(* Gopher::new.                                                            *)
(***************************************************************************)
DefaultPort == 70

NotCalled == [tag |-> "NotCalled"]
Err(kind) == [tag |-> "Err", kind |-> kind]
Ok(v) == [tag |-> "Ok", val |-> v]

SchemeTlsSwapped(scheme) == scheme = GOPHER
\* match url.scheme(): "gopher" => false, "gophers" => true
SchemeTls(scheme) == scheme = GOPHERS

SupportedScheme(scheme) == scheme \in {GOPHER, GOPHERS}

PortAlwaysDefault(port) == DefaultPort
\* url.port().unwrap_or(70)
PortOrDefault(port) == IF port = NoPort THEN DefaultPort ELSE port

HostCheckSkipped(url) == FALSE
\* url.host().is_none()
HostIsNone(url) == ~url.host.some

NewSchemeFirst(e) ==
    LET r == UrlParse(e)
    IN  IF ~r.ok THEN Err("UrlParseError")
        ELSE IF ~SupportedScheme(r.url.scheme) THEN Err("UnsupportedProtocol")
        ELSE IF HostIsNone(r.url) THEN Err("InvalidHost")
        ELSE Ok([host |-> r.url.host.str,
                 port |-> PortOrDefault(r.url.port),
                 tls |-> SchemeTls(r.url.scheme)])
New(e) ==
    LET r == UrlParse(e)
    IN  IF ~r.ok THEN Err("UrlParseError")
        ELSE IF HostIsNone(r.url) THEN Err("InvalidHost")
        ELSE IF ~SupportedScheme(r.url.scheme) THEN Err("UnsupportedProtocol")
        ELSE Ok([host |-> r.url.host.str,
                 port |-> PortOrDefault(r.url.port),
                 tls |-> SchemeTls(r.url.scheme)])

(***************************************************************************)
(* Bounds of the model.                                                    *)
(***************************************************************************)
MaxDials == 2
MaxBodyLen == 2
MaxFaults == 1

(***************************************************************************)
(* Gopher::connect.                                                        *)
(***************************************************************************)
NoGopher == [tag |-> "NoGopher"]
NoConn == [variant |-> "None", sock |-> 0]

ConnectIgnoresHandshake(cfg, sock, dialOk, ctxOk, hsOk) ==
    IF ~dialOk THEN Err("IoError")
    ELSE IF ~cfg.tls THEN Ok([variant |-> "Tcp", sock |-> sock])
    ELSE IF ~ctxOk THEN Err("TlsError")
    ELSE Ok([variant |-> "Tls", sock |-> sock])
\* The value connect returns, given whether TcpStream::connect,
\* TlsConnector::new and TlsConnector::connect succeed; sock names the socket
\* TcpStream::connect opened.
ConnectOutcome(cfg, sock, dialOk, ctxOk, hsOk) ==
    IF ~dialOk THEN Err("IoError")
    ELSE IF ~cfg.tls THEN Ok([variant |-> "Tcp", sock |-> sock])
    ELSE IF ~ctxOk THEN Err("TlsError")
    ELSE IF ~hsOk THEN Err("HandshakeError")
    ELSE Ok([variant |-> "Tls", sock |-> sock])

(***************************************************************************)
(* GopherConnection::fetch.                                                *)
(***************************************************************************)
CR == 13
LF == 10

BodyBytes == {49, 46}
ErrorKinds == {"Interrupted", "ConnectionReset"}

\* The selectors fetch is called with: the empty one, ASCII, non-ASCII.
Paths == {<<>>, <<"/">>, <<"U+E9">>}
Bodies == SeqsUpTo(BodyBytes, MaxBodyLen)

\* The UTF-8 encoding of one character.
Utf8(c) ==
    CASE c = "/" -> <<47>>
      [] c = "\r" -> <<CR>>
      [] c = "\n" -> <<LF>>
      [] c = "U+E9" -> <<195, 169>>

\* str::as_bytes
RECURSIVE as_bytes(_)
as_bytes(str) ==
    IF str = <<>> THEN <<>> ELSE Utf8(Head(str)) \o as_bytes(Tail(str))

RequestLfOnly(p) == as_bytes(p \o <<"\n">>)
\* format!("{}\r\n", path).as_bytes()
Request(p) == as_bytes(p \o <<"\r", "\n">>)

WriteOnce(w, r) == w >= 1
\* write_all's loop condition: it ends once the whole buffer was accepted.
WriteAllDone(w, r) == w = Len(r)

RetryEveryError(kind) == TRUE
\* write_all and read_to_end ignore ErrorKind::Interrupted and call again.
IsRetried(kind) == kind = "Interrupted"

ExtendReplaces(b, chunk) == chunk
\* read_to_end appends what a read returned to the Vec.
Extend(b, chunk) == b \o chunk

EofWhenNothingBuffered(pending, closed) == pending = <<>>
\* A blocking read returns Ok(0) only at end of stream: the peer has closed
\* and everything it wrote has been read.
ReadAtEof(pending, closed) == pending = <<>> /\ closed

WriteOk(n) == [op |-> "write", ok |-> TRUE, n |-> n, kind |-> "none"]
ReadOk(n) == [op |-> "read", ok |-> TRUE, n |-> n, kind |-> "none"]
IoErr(op, kind) == [op |-> op, ok |-> FALSE, n |-> 0, kind |-> kind]

Faults(log) == {i \in 1..Len(log) : ~log[i].ok}
Reads(log) == {i \in 1..Len(log) : log[i].op = "read"}
Writes(log) == {i \in 1..Len(log) : log[i].op = "write"}

(***************************************************************************)
(* The resolver on its own: Gopher::new applied to an endpoint string.     *)
(***************************************************************************)
IdleFetch ==
    /\ pc = "idle"
    /\ path = <<>>
    /\ req = <<>>
    /\ written = 0
    /\ wire = <<>>
    /\ buf = <<>>
    /\ eofSeen = FALSE
    /\ ioLog = <<>>
    /\ fetchResult = NotCalled

InitResolve ==
    /\ endpoint \in Endpoints
    /\ newResult = NotCalled
    /\ gopher = NoGopher
    /\ dials = 0
    /\ handshaken = {}
    /\ conn = NoConn
    /\ connResult = NotCalled
    /\ IdleFetch
    /\ peerKind = "stall"
    /\ body = <<>>
    /\ peerSent = 0
    /\ inflight = <<>>
    /\ peerClosed = FALSE

CallNew ==
    /\ newResult = NotCalled
    /\ newResult' = New(endpoint)
    /\ gopher' = IF newResult'.tag = "Ok" THEN newResult'.val ELSE gopher
    /\ UNCHANGED <<endpoint, dials, handshaken, conn, connResult>>
    /\ UNCHANGED fetchVars
    /\ UNCHANGED peerVars

NextResolve == CallNew

SpecResolve == InitResolve /\ [][NextResolve]_vars

(***************************************************************************)
(* A session: a Gopher built from an endpoint, connect, one fetch, and the *)
(* peer at the other end of the socket.                                    *)
(***************************************************************************)
SessionEndpoints ==
    {GOPHER \o <<":">> \o SLASHES \o HOSTNAME,
     GOPHERS \o <<":">> \o SLASHES \o HOSTNAME \o <<":", "1", "0", "5">>}

Init ==
    /\ endpoint \in SessionEndpoints
    /\ newResult = New(endpoint)
    /\ newResult.tag = "Ok"
    /\ gopher = newResult.val
    /\ dials = 0
    /\ handshaken = {}
    /\ conn = NoConn
    /\ connResult = NotCalled
    /\ IdleFetch
    /\ peerKind \in {"serve", "stall"}
    /\ body \in IF peerKind = "serve" THEN Bodies ELSE {<<>>}
    /\ peerSent = 0
    /\ inflight = <<>>
    /\ peerClosed = FALSE

\* Gopher::connect.  Each call dials a fresh socket; the connection of an
\* earlier call is dropped when the caller rebinds it.
Connect ==
    /\ pc = "idle"
    /\ gopher # NoGopher
    /\ dials < MaxDials
    /\ \E dialOk, ctxOk, hsOk \in BOOLEAN :
        LET sock == dials + 1
            r == ConnectOutcome(gopher, sock, dialOk, ctxOk, hsOk)
        IN  /\ dials' = sock
            /\ handshaken' = IF dialOk /\ gopher.tls /\ ctxOk /\ hsOk
                             THEN handshaken \cup {sock} ELSE handshaken
            /\ connResult' = r
            /\ conn' = IF r.tag = "Ok" THEN r.val ELSE NoConn
    /\ wire' = <<>>
    /\ peerSent' = 0
    /\ inflight' = <<>>
    /\ peerClosed' = FALSE
    /\ UNCHANGED <<endpoint, newResult, gopher, peerKind, body>>
    /\ UNCHANGED <<pc, path, req, written, buf, eofSeen, ioLog, fetchResult>>

\* fetch is entered: the request is formatted (line 153).
FetchCall ==
    /\ pc = "idle"
    /\ conn # NoConn
    /\ \E p \in Paths :
        /\ path' = p
        /\ req' = Request(p)
    /\ written' = 0
    /\ pc' = "write_all"
    /\ UNCHANGED <<wire, buf, eofSeen, ioLog, fetchResult>>
    /\ UNCHANGED resolverVars
    /\ UNCHANGED connectVars
    /\ UNCHANGED peerVars

FetchReturns(r) ==
    /\ pc' = "returned"
    /\ fetchResult' = r

\* One iteration of write_all (line 154): a write call on the rest of the
\* request and what write_all does with its result.
WriteStep ==
    /\ pc = "write_all"
    /\ LET rest == DropFirst(req, written)
       IN  \/ \E n \in 1..Len(rest) :
                /\ wire' = wire \o SubSeq(rest, 1, n)
                /\ written' = written + n
                /\ ioLog' = Append(ioLog, WriteOk(n))
                /\ IF WriteAllDone(written', req)
                   THEN /\ pc' = "read_to_end"
                        /\ buf' = <<>>
                   ELSE UNCHANGED <<pc, buf>>
                /\ UNCHANGED fetchResult
           \/ /\ ioLog' = Append(ioLog, WriteOk(0))
              /\ FetchReturns(Err("WriteZero"))
              /\ UNCHANGED <<wire, written, buf>>
           \/ \E kind \in ErrorKinds :
                /\ Cardinality(Faults(ioLog)) < MaxFaults
                /\ ioLog' = Append(ioLog, IoErr("write", kind))
                /\ IF IsRetried(kind)
                   THEN UNCHANGED <<pc, fetchResult>>
                   ELSE FetchReturns(Err(kind))
                /\ UNCHANGED <<wire, written, buf>>
    /\ UNCHANGED <<path, req, eofSeen>>
    /\ UNCHANGED resolverVars
    /\ UNCHANGED connectVars
    /\ UNCHANGED peerVars

\* One iteration of read_to_end (line 156): a blocking read call and what
\* read_to_end does with its result.
ReadStep ==
    /\ pc = "read_to_end"
    /\ \/ \E n \in 1..Len(inflight) :
            /\ buf' = Extend(buf, SubSeq(inflight, 1, n))
            /\ inflight' = DropFirst(inflight, n)
            /\ ioLog' = Append(ioLog, ReadOk(n))
            /\ UNCHANGED <<pc, fetchResult, eofSeen>>
       \/ /\ ReadAtEof(inflight, peerClosed)
          /\ ioLog' = Append(ioLog, ReadOk(0))
          /\ eofSeen' = TRUE
          /\ FetchReturns(Ok(buf))
          /\ UNCHANGED <<buf, inflight>>
       \/ \E kind \in ErrorKinds :
            /\ Cardinality(Faults(ioLog)) < MaxFaults
            /\ ioLog' = Append(ioLog, IoErr("read", kind))
            /\ IF IsRetried(kind)
               THEN UNCHANGED <<pc, fetchResult>>
               ELSE FetchReturns(Err(kind))
            /\ UNCHANGED <<buf, inflight, eofSeen>>
    /\ UNCHANGED <<path, req, written, wire>>
    /\ UNCHANGED resolverVars
    /\ UNCHANGED connectVars
    /\ UNCHANGED <<peerKind, body, peerSent, peerClosed>>

\* The peer writes the next bytes of its body.
PeerSend ==
    /\ conn # NoConn
    /\ pc # "returned"
    /\ peerKind = "serve"
    /\ ~peerClosed
    /\ \E n \in 1..(Len(body) - peerSent) :
        /\ inflight' = inflight \o SubSeq(body, peerSent + 1, peerSent + n)
        /\ peerSent' = peerSent + n
    /\ UNCHANGED <<peerKind, body, peerClosed>>
    /\ UNCHANGED resolverVars
    /\ UNCHANGED connectVars
    /\ UNCHANGED fetchVars

\* The peer closes its write side once its body is written.
PeerClose ==
    /\ conn # NoConn
    /\ pc # "returned"
    /\ peerKind = "serve"
    /\ ~peerClosed
    /\ peerSent = Len(body)
    /\ peerClosed' = TRUE
    /\ UNCHANGED <<peerKind, body, peerSent, inflight>>
    /\ UNCHANGED resolverVars
    /\ UNCHANGED connectVars
    /\ UNCHANGED fetchVars

Next ==
    \/ Connect
    \/ FetchCall
    \/ WriteStep
    \/ ReadStep
    \/ PeerSend
    \/ PeerClose

Spec == Init /\ [][Next]_vars

TypeOK ==
    /\ pc \in {"idle", "write_all", "read_to_end", "returned"}
    /\ dials \in 0..MaxDials
    /\ written \in 0..Len(req)

(***************************************************************************)
(* Properties of Gopher::new, checked under SpecResolve.                   *)
(***************************************************************************)
Parsed == UrlParse(endpoint)

EndsWith(s, t) == Len(s) >= Len(t) /\ SubSeq(s, Len(s) - Len(t) + 1, Len(s)) = t

\* The number written in a port part of an endpoint, NoPort when it has none.
PortPartValue(p) ==
    CASE p = <<":", "0">> -> 0
      [] p = <<":", "7", "0">> -> 70
      [] p = <<":", "8", "0">> -> 80
      [] p = <<":", "1", "0", "5">> -> 105
      [] p = <<":", "6", "5", "5", "3", "5">> -> 65535
      [] OTHER -> NoPort

\* C1: for every endpoint that parses and has a host, new maps the scheme to
\* the transport: scheme gopher gives a configuration with tls = false,
\* scheme gophers one with tls = true, and any other scheme fails with
\* UnsupportedProtocol.
C1_SchemeSelectsTransport ==
    (newResult # NotCalled /\ Parsed.ok /\ Parsed.url.host.some) =>
        /\ Parsed.url.scheme = GOPHER =>
              newResult.tag = "Ok" /\ newResult.val.tls = FALSE
        /\ Parsed.url.scheme = GOPHERS =>
              newResult.tag = "Ok" /\ newResult.val.tls = TRUE
        /\ Parsed.url.scheme \notin {GOPHER, GOPHERS} =>
              newResult = Err("UnsupportedProtocol")

C1_Witness ==
    /\ StartsWith(endpoint, GOPHERS \o <<":">>)
    /\ newResult.tag = "Ok"
    /\ newResult.val.tls = TRUE

\* C2: when new succeeds on an endpoint that writes no port number after its
\* host, the configuration's port is 70; when the endpoint writes the port
\* number p (70 included), the configuration's port is p.
C2_PortExplicitOrDefault ==
    newResult.tag = "Ok" =>
        \A p \in PortParts, t \in PathParts :
            EndsWith(endpoint, HOSTNAME \o p \o t) =>
                newResult.val.port =
                    IF PortPartValue(p) = NoPort THEN 70 ELSE PortPartValue(p)

C2_Witness ==
    /\ newResult.tag = "Ok"
    /\ EndsWith(endpoint, HOSTNAME \o <<":", "1", "0", "5">>)
    /\ newResult.val.port = 105

\* C3: an endpoint that parses as a URL and has no host makes new fail with
\* InvalidHost and yields no configuration; every configuration new returns
\* has a non-empty host.
C3_NoHostIsInvalidHost ==
    newResult # NotCalled =>
        /\ (Parsed.ok /\ ~Parsed.url.host.some) =>
              newResult = Err("InvalidHost") /\ gopher = NoGopher
        /\ newResult.tag = "Ok" =>
              newResult.val.host # <<>> /\ gopher = newResult.val

C3_Witness ==
    /\ endpoint = GOPHER \o <<":">> \o SLASHES
    /\ newResult = Err("InvalidHost")

\* C10: new reports the first failure that applies, in the order URL parse
\* failure, missing host, unrecognised scheme: an endpoint that parses, has
\* no host and has a scheme other than gopher/gophers fails with InvalidHost,
\* and UnsupportedProtocol is returned only for endpoints that parse and have
\* a host.
C10_FailureOrder ==
    newResult # NotCalled =>
        /\ ~Parsed.ok => newResult = Err("UrlParseError")
        /\ (Parsed.ok /\ ~Parsed.url.host.some
                /\ Parsed.url.scheme \notin {GOPHER, GOPHERS}) =>
              newResult = Err("InvalidHost")
        /\ newResult = Err("UnsupportedProtocol") =>
              /\ Parsed.ok
              /\ Parsed.url.host.some
              /\ Parsed.url.scheme \notin {GOPHER, GOPHERS}

C10_Witness ==
    /\ endpoint = HOSTNAME \o <<":", "7", "0">>
    /\ Parsed.ok
    /\ Parsed.url.scheme = HOSTNAME
    /\ newResult = Err("InvalidHost")

(***************************************************************************)
(* Properties of connect and fetch, checked under Spec.                    *)
(***************************************************************************)
ZeroWrites(log) == {i \in Writes(log) : log[i].ok /\ log[i].n = 0}

\* C4: the bytes fetch hands to the transport are path followed by CR LF,
\* once and in order: at every moment they are a prefix of that request, and
\* once the write phase is over they are exactly it, however the writes
\* were split.
C4_RequestBytes ==
    pc # "idle" =>
        /\ IsPrefix(wire, as_bytes(path) \o <<CR, LF>>)
        /\ (pc = "read_to_end" \/ fetchResult.tag = "Ok" \/ Reads(ioLog) # {}) =>
              wire = as_bytes(path) \o <<CR, LF>>

C4_Witness ==
    /\ fetchResult.tag = "Ok"
    /\ path = <<>>
    /\ wire = <<CR, LF>>
    /\ Cardinality(Writes(ioLog)) = 2

\* C5: when the peer writes S and closes and no read or write fails, a fetch
\* that returns returns Ok with exactly S; an Ok result always carries
\* exactly the bytes the peer wrote.
C5_ResponseBytes ==
    /\ (pc = "returned" /\ Faults(ioLog) = {} /\ ZeroWrites(ioLog) = {}) =>
          fetchResult = Ok(body)
    /\ fetchResult.tag = "Ok" => fetchResult.val = body

C5_Witness ==
    /\ fetchResult = Ok(body)
    /\ Len(body) = 2
    /\ body[1] # body[2]
    /\ Cardinality({i \in Reads(ioLog) : ioLog[i].n = 1}) = 2
    /\ Faults(ioLog) = {}

C7_FirstFailureEndsCall ==
    \A i \in Faults(ioLog) :
        /\ i = Len(ioLog)
        /\ pc = "returned"
        /\ fetchResult = Err(ioLog[i].kind)

\* C7 amended: the first failing write or read whose error is not of kind
\* Interrupted ends the call with that error; an Ok result is returned only
\* when every failure was of kind Interrupted; an error result carries no
\* received bytes.
C7_FirstHardFailureEndsCall ==
    /\ \A i \in Faults(ioLog) :
          ioLog[i].kind # "Interrupted" =>
              /\ i = Len(ioLog)
              /\ pc = "returned"
              /\ fetchResult = Err(ioLog[i].kind)
    /\ fetchResult.tag = "Ok" =>
          \A i \in Faults(ioLog) : ioLog[i].kind = "Interrupted"
    /\ fetchResult.tag = "Err" => "val" \notin DOMAIN fetchResult

C7_Witness ==
    /\ fetchResult = Err("ConnectionReset")
    /\ buf # <<>>
    /\ ioLog[Len(ioLog)] = IoErr("read", "ConnectionReset")

\* C8: fetch returns Ok only after a read returned zero bytes at the end of
\* the peer's stream; against a peer that keeps the socket open and sends
\* nothing, with no I/O error, fetch does not return.
C8_OkOnlyAfterEof ==
    /\ fetchResult.tag = "Ok" =>
          /\ eofSeen
          /\ ioLog[Len(ioLog)] = ReadOk(0)
          /\ peerClosed
          /\ inflight = <<>>
    /\ (peerKind = "stall" /\ Faults(ioLog) = {} /\ ZeroWrites(ioLog) = {}) =>
          pc # "returned"

C8_Witness ==
    /\ peerKind = "stall"
    /\ pc = "read_to_end"
    /\ wire = req
    /\ Faults(ioLog) = {}

\* C9: within a fetch no read is issued before the whole request was
\* accepted, a request write that fails part-way is followed by no read, and
\* no write follows a read.
C9_WriteThenRead ==
    /\ Reads(ioLog) # {} => wire = req /\ written = Len(req)
    /\ \A i \in Reads(ioLog), j \in Writes(ioLog) : j < i
    /\ (fetchResult.tag = "Err" /\ wire # req) => Reads(ioLog) = {}

C9_Witness ==
    /\ fetchResult = Err("ConnectionReset")
    /\ 0 < written
    /\ written < Len(req)
    /\ Reads(ioLog) = {}

====
